---- MODULE Spec2Model ----
(***************************************************************************)
(* A model of RepoHandle::connect_stream and RepoHandle::handshake         *)
(* (src/src/network_connect.rs) for one local repo that is handed a small  *)
(* number of transport channels.  The remote end of every channel is the   *)
(* environment: it may put any message, a receive error or the end of the  *)
(* stream on the channel's inbound stream, and the transport may refuse    *)
(* any write to the channel's sink.                                        *)
(*                                                                         *)
(* The module also models the Network adapter of the integration tests     *)
(* (src/tests/integration_tests.rs) with the router task that moves        *)
(* messages between two repos' adapters.                                   *)
(***************************************************************************)
EXTENDS Integers, Sequences, FiniteSets, TLC

\* ------------------------------------------------------------------ bounds

NumChans == 2          \* transport channels handed to the local repo
MaxRecv == 4           \* items put on one inbound stream over a channel's life
MaxSend == 3           \* RepoMessages the repo hands to one outbound sink
MaxPayload == 2        \* distinct Sync payloads
MaxInbox == 2          \* items one inbound stream holds at a time
MaxOut == 2            \* messages the test repos hand to their Network adapters
MaxEdits == 1          \* changes made to documents after the one at their creation

Chans == 1..NumChans
TheChan == CHOOSE c \in Chans : \A d \in Chans : c <= d
Payloads == 1..MaxPayload

\* ------------------------------------------------------------- data model

\* ProtocolVersion: an ordered enum.  V1 is the value the code names; a wire
\* message may also name the version after it, which this repo does not speak.
V1 == 1
ProtocolVersion == {V1, V1 + 1}

\* The versions the local repo speaks: the Join it sends advertises vec![V1].
supported_protocol_versions == {V1}

\* RepoId: the local repo's own id and the ids remote repos announce.
Self == "self"
RemoteIds == {"r1", "r2"}
RepoId == {Self} \cup RemoteIds

ConnDirection == {"Incoming", "Outgoing"}

\* RepoMessage: Sync, and the variants the `_` arm of the sink stands for.
RepoMessage ==
    [kind : {"Sync"}, payload : Payloads] \cup {[kind |-> "Ephemeral"]}

Join(sender, supported) ==
    [type |-> "Join", sender |-> sender, supported |-> supported]
Peer(sender, selected) ==
    [type |-> "Peer", sender |-> sender, selected |-> selected]
Repo(msg) == [type |-> "Repo", msg |-> msg]

\* Message: the wire variants.
Message ==
    {Join(s, v) : s \in RemoteIds, v \in SUBSET ProtocolVersion}
    \cup {Peer(s, v) : s \in RemoteIds, v \in ProtocolVersion}
    \cup {Repo(m) : m \in RepoMessage}

\* What stream.next() can yield: Some(Ok(message)), Some(Err(e)) or None.
RecvErr == [type |-> "RecvErr"]
EndOfStream == [type |-> "End"]
StreamItem == Message \cup {RecvErr, EndOfStream}

NoItem == [type |-> "NoItem"]
NoId == "none"

\* The texts of NetworkError::Error(..) the two functions build.
ErrExpectingJoin == "unexpected message (expecting join)"
ErrReciving == "error reciving"
ErrSending == "error sending"
ErrEndOfStream == "unexpected end of receive stream"
ErrSendError == "send error"
ErrExpectingPeer == "unexpected message (expecting peer)"
ErrNonRepo == "unexpected non-repo message"
ErrReceivingRepo == "error receiving repo message"
ErrSendingRepo == "error sending repo message"

\* ------------------------------------------------------------------ state

VARIABLES
    pc,         \* per channel: where connect_stream / the peer channel stands
    dir,        \* per channel: the direction connect_stream was called with
    inbox,      \* per channel: items the transport holds for stream.next()
    arrivals,   \* per channel: every item the environment has put there, in order
    hsMsg,      \* per channel: the item the handshake read (NoItem before)
    other_id,   \* per channel: the RepoId the handshake learned (NoId before)
    result,     \* per channel: "pending", "Ok" or the text of the Err returned
    sent,       \* per channel: every message written to the transport's sink
    hsSent,     \* per channel: Len(sent) when the channel was installed
    closed,     \* per channel: stream and sink have been dropped
    installs,   \* the calls of new_remote_repo / new_network_adapter, in order
    peers,      \* the channels the repo holds as active peers
    peerId,     \* per channel: the RepoId it was installed under
    delivered,  \* per channel: the RepoMessages the repo received from it
    peerErr,    \* per channel: the error that ended the peer channel ("" if none)
    handed,     \* per channel: the RepoMessages the repo handed to its sink
    slot,       \* per channel: the with_flat_map stream not yet written out
    repo_id,    \* per channel: the id of the repo that was handed it
    link        \* "none": the remote end is the environment; "up" or "down":
                \* the channels are the two ends of one transport connection

\* The test Network adapters, one per <<owner, peer>>, and the router task.
VARIABLES
    buffer,           \* per adapter: Network.buffer
    stream_waker,     \* per adapter: Network.stream_waker is Some
    outgoing,         \* per adapter: Network.outgoing
    sink_waker,       \* per adapter: Network.sink_waker is Some
    network_receiver, \* the (from, to) pairs held by the channel(1)
    repo_task,        \* per repo: where its loop stands inside an adapter call
    sink_parked,      \* per adapter: the producer got Pending and was not woken
    stream_parked,    \* per adapter: the consumer got Pending and was not woken
    sink_closed,      \* per adapter: poll_close returned Ready
    router,           \* where the router task stands in its loop body
    router_thread,    \* the repo whose thread also runs the router (NoId: none)
    router_test,      \* which test's router and peers map is running
    accepted,         \* per adapter: the messages start_send pushed, in order
    taken,            \* per adapter: the messages take_outgoing returned, in order
    received          \* per adapter: the events poll_next returned, in order

connVars == <<pc, dir, inbox, arrivals, hsMsg, other_id, result, sent, hsSent,
              closed, installs, peers, peerId, delivered, peerErr, handed, slot,
              repo_id, link>>

netVars == <<buffer, stream_waker, outgoing, sink_waker, network_receiver,
             repo_task, sink_parked, stream_parked, sink_closed, router,
             router_thread, router_test, accepted, taken, received>>

\* The repos of the tests as sync engines: registry, peers, requests.
VARIABLES
    run_state,   \* per repo: "running", "stopping" (Stop queued) or "stopped"
    registry,    \* per repo and document: the changes it holds (0: none)
    adapters,    \* per repo: the repo ids it has a network adapter for
    wire,        \* per <<from, to>>: the Sync messages sent and not yet received
    requests,    \* per repo and document: the state of its request_document future
    found_state, \* per repo and document: the handle's state when it resolved
    absent_from  \* per repo and document: the peers that reported absence

syncVars == <<run_state, registry, adapters, wire, requests, found_state,
              absent_from>>

vars == <<connVars, netVars, syncVars>>

\* The two repos of the tests and the adapter each installs for the other.
TestRepos == {"r1", "r2"}
Adapters == {a \in TestRepos \X TestRepos : a[1] # a[2]}

\* channel(1): the capacity of the notification channel.
NotifyCapacity == 1

NetworkSync(from, to, n) == [from |-> from, to |-> to, n |-> n]
NoMessage == [from |-> NoId, to |-> NoId, n |-> 0]

Idle == [op |-> "idle", step |-> 0]
AtRecv == [at |-> "recv", from |-> NoId, to |-> NoId, msg |-> NoMessage]

\* Network::new for every adapter; no task has run yet.
NetInit ==
    /\ buffer = [a \in Adapters |-> <<>>]
    /\ stream_waker = [a \in Adapters |-> FALSE]
    /\ outgoing = [a \in Adapters |-> <<>>]
    /\ sink_waker = [a \in Adapters |-> FALSE]
    /\ network_receiver = <<>>
    /\ repo_task = [r \in TestRepos |-> Idle]
    /\ sink_parked = [a \in Adapters |-> FALSE]
    /\ stream_parked = [a \in Adapters |-> FALSE]
    /\ sink_closed = [a \in Adapters |-> FALSE]
    /\ router = AtRecv
    /\ accepted = [a \in Adapters |-> <<>>]
    /\ taken = [a \in Adapters |-> <<>>]
    /\ received = [a \in Adapters |-> <<>>]

\* The local repo before any channel is handed to it.
ConnInit ==
    /\ pc = [c \in Chans |-> "idle"]
    /\ dir = [c \in Chans |-> "none"]
    /\ inbox = [c \in Chans |-> <<>>]
    /\ arrivals = [c \in Chans |-> <<>>]
    /\ hsMsg = [c \in Chans |-> NoItem]
    /\ other_id = [c \in Chans |-> NoId]
    /\ result = [c \in Chans |-> "pending"]
    /\ sent = [c \in Chans |-> <<>>]
    /\ hsSent = [c \in Chans |-> 0]
    /\ closed = [c \in Chans |-> FALSE]
    /\ installs = <<>>
    /\ peers = {}
    /\ peerId = [c \in Chans |-> NoId]
    /\ delivered = [c \in Chans |-> <<>>]
    /\ peerErr = [c \in Chans |-> ""]
    /\ handed = [c \in Chans |-> <<>>]
    /\ slot = [c \in Chans |-> <<>>]

\* The repos of test_simple_sync, three standing for its nine.
MeshRepos == TestRepos \cup {"r3"}

\* DocumentId: one document per repo, named by the repo that created it, and
\* an id no repo ever created.
Unknown == "unknown"
DocumentId == MeshRepos \cup {Unknown}

\* The adapters' directions <<from, to>>, a repo's adapter for itself included.
Links == MeshRepos \X MeshRepos

\* Repo::new, run, new_document and the first with_doc_mut of every test:
\* each repo runs and holds its own document with one change.
SyncInit ==
    /\ run_state = [r \in MeshRepos |-> "running"]
    /\ registry = [r \in MeshRepos |-> [d \in DocumentId |-> IF d = r THEN 1 ELSE 0]]
    /\ adapters = [r \in MeshRepos |-> {}]
    /\ wire = [l \in Links |-> <<>>]
    /\ requests = [r \in MeshRepos |-> [d \in DocumentId |-> "none"]]
    /\ found_state = [r \in MeshRepos |-> [d \in DocumentId |-> 0]]
    /\ absent_from = [r \in MeshRepos |-> [d \in DocumentId |-> {}]]

\* Every channel is handed to the one local repo; its remote end is the
\* environment.
OneRepo ==
    /\ repo_id = [c \in Chans |-> Self]
    /\ link = "none"

Init ==
    /\ ConnInit
    /\ OneRepo
    /\ NetInit
    /\ SyncInit
    /\ router_thread = NoId
    /\ router_test = "test_simple_sync"

\* ------------------------------------------------- handshake (pure parts)

\* The Join an Outgoing handshake sends.
join_msg == Join(Self, supported_protocol_versions)

\* The Peer an Incoming handshake replies with: the version is the literal V1.
peer_msg == Peer(Self, V1)

\* A faulty variant: the Join arm also takes a Peer (`Join{sender,..} | Peer{sender,..}`).
incoming_match_takes_peer(item) ==
    IF item.type = "End"
    THEN [ok |-> FALSE, other_id |-> NoId, err |-> ErrEndOfStream]
    ELSE IF item.type \in {"Join", "Peer"}
    THEN [ok |-> TRUE, other_id |-> item.sender, err |-> ""]
    ELSE IF item.type = "RecvErr"
    THEN [ok |-> FALSE, other_id |-> NoId, err |-> ErrReciving]
    ELSE [ok |-> FALSE, other_id |-> NoId, err |-> ErrExpectingJoin]

\* A faulty variant: an unexpected message is reported with the receive error's text.
incoming_match_one_error_text(item) ==
    IF item.type = "End"
    THEN [ok |-> FALSE, other_id |-> NoId, err |-> ErrEndOfStream]
    ELSE IF item.type = "Join"
    THEN [ok |-> TRUE, other_id |-> item.sender, err |-> ""]
    ELSE [ok |-> FALSE, other_id |-> NoId, err |-> ErrReciving]

\* Incoming: the match on the first item of the stream.
incoming_match(item) ==
    IF item.type = "End"
    THEN [ok |-> FALSE, other_id |-> NoId, err |-> ErrEndOfStream]
    ELSE IF item.type = "Join"
    THEN [ok |-> TRUE, other_id |-> item.sender, err |-> ""]
    ELSE IF item.type = "RecvErr"
    THEN [ok |-> FALSE, other_id |-> NoId, err |-> ErrReciving]
    ELSE [ok |-> FALSE, other_id |-> NoId, err |-> ErrExpectingJoin]

\* A faulty variant: the Peer arm returns the repo's own id instead of the sender.
outgoing_match_returns_own_id(item) ==
    IF item.type = "Peer"
    THEN [ok |-> TRUE, other_id |-> Self, err |-> ""]
    ELSE IF item.type = "RecvErr"
    THEN [ok |-> FALSE, other_id |-> NoId, err |-> ErrSending]
    ELSE IF item.type = "End"
    THEN [ok |-> FALSE, other_id |-> NoId, err |-> ErrEndOfStream]
    ELSE [ok |-> FALSE, other_id |-> NoId, err |-> ErrExpectingPeer]

\* Outgoing: the match on the one item read after the Join was sent.
outgoing_match(item) ==
    IF item.type = "Peer"
    THEN [ok |-> TRUE, other_id |-> item.sender, err |-> ""]
    ELSE IF item.type = "RecvErr"
    THEN [ok |-> FALSE, other_id |-> NoId, err |-> ErrSending]
    ELSE IF item.type = "End"
    THEN [ok |-> FALSE, other_id |-> NoId, err |-> ErrEndOfStream]
    ELSE [ok |-> FALSE, other_id |-> NoId, err |-> ErrExpectingPeer]

\* ---------------------------------------------- peer channel (pure parts)

\* A faulty variant: a filter_map that drops a non-repo message and goes on.
mapped_stream_skips_non_repo(item) ==
    IF item.type = "Repo"
    THEN <<[ok |-> TRUE, msg |-> item.msg, err |-> ""]>>
    ELSE IF item.type = "RecvErr"
    THEN <<[ok |-> FALSE, msg |-> NoItem, err |-> ErrReceivingRepo]>>
    ELSE <<>>

\* stream.map(..): what the wrapped stream yields for one inbound item.
mapped_stream(item) ==
    IF item.type = "Repo"
    THEN <<[ok |-> TRUE, msg |-> item.msg, err |-> ""]>>
    ELSE IF item.type = "RecvErr"
    THEN <<[ok |-> FALSE, msg |-> NoItem, err |-> ErrReceivingRepo]>>
    ELSE <<[ok |-> FALSE, msg |-> NoItem, err |-> ErrNonRepo]>>

\* A faulty variant: every RepoMessage is wrapped and forwarded.
sink_flat_map_forwards_all(msg) == <<Repo(msg)>>

\* A faulty variant: a Sync is forwarded twice.
sink_flat_map_twice(msg) ==
    IF msg.kind = "Sync" THEN <<Repo(msg), Repo(msg)>> ELSE <<>>

\* sink.with_flat_map(..): the messages one RepoMessage turns into.
sink_flat_map(msg) ==
    IF msg.kind = "Sync" THEN <<Repo(msg)>> ELSE <<>>

\* --------------------------------------------------- the repo's peer set

\* A faulty variant: the new peer is added and an earlier one for the same id is kept.
new_remote_repo_keeps_earlier(id, c, via) ==
    /\ peers' = peers \cup {c}
    /\ peerId' = [peerId EXCEPT ![c] = id]
    /\ closed' = closed
    /\ installs' = Append(installs, [chan |-> c, id |-> id, via |-> via])
    /\ hsSent' = [hsSent EXCEPT ![c] = Len(sent'[c])]

\* new_remote_repo(repo_id, stream, sink): the channel becomes the active
\* peer for repo_id; an earlier peer with that id is superseded and closed.
new_remote_repo(id, c, via) ==
    LET old == {p \in peers : peerId[p] = id} IN
    /\ peers' = (peers \ old) \cup {c}
    /\ peerId' = [peerId EXCEPT ![c] = id]
    /\ closed' = [x \in Chans |-> closed[x] \/ x \in old]
    /\ installs' = Append(installs, [chan |-> c, id |-> id, via |-> via])
    /\ hsSent' = [hsSent EXCEPT ![c] = Len(sent'[c])]

\* The repo drops a peer whose stream or sink reported an error or ended.
remove_peer(c, err) ==
    /\ peers' = peers \ {c}
    /\ closed' = [closed EXCEPT ![c] = TRUE]
    /\ peerErr' = [peerErr EXCEPT ![c] = err]

\* ------------------------------------------------------- connect_stream

\* The handshake returned Err: `?` returns it, dropping stream and sink.
handshake_failed(c, err) ==
    /\ result' = [result EXCEPT ![c] = err]
    /\ pc' = [pc EXCEPT ![c] = "failed"]
    /\ closed' = [closed EXCEPT ![c] = TRUE]
    /\ UNCHANGED <<installs, peers, peerId, hsSent>>

\* The handshake returned Ok(id): wrap stream and sink, install, return Ok.
handshake_complete(c, id) ==
    /\ result' = [result EXCEPT ![c] = "Ok"]
    /\ pc' = [pc EXCEPT ![c] = "done"]
    /\ new_remote_repo(id, c, "connect_stream")

\* What sink.send(msg).await can do: write and flush, fail before the
\* message reached the transport, or fail after it did.
SendOutcome == {"sent", "failed_unsent", "failed_sent"}

sink_send(c, msg, outcome) ==
    sent' = [sent EXCEPT ![c] =
                IF outcome = "failed_unsent" THEN @ ELSE Append(@, msg)]

\* What the transport does to a write on the sink of channel c: anything
\* when the remote end is the environment; on a connection between two
\* ends it takes the write while the connection is up and refuses it after.
SinkOutcomes(c) ==
    IF link = "none" THEN SendOutcome
    ELSE IF link = "up" THEN {"sent"} ELSE {"failed_unsent"}

\* A faulty variant: a wait that gives up and reports the end of the stream.
awaited_with_timeout(stream) ==
    IF stream = <<>> THEN <<EndOfStream>> ELSE <<Head(stream)>>

\* stream.next().await: the head of the inbound stream once there is one;
\* until then the handshake waits.
awaited(stream) == IF stream = <<>> THEN <<>> ELSE <<Head(stream)>>

\* stream.next(): the head of the inbound stream; the end of the stream stays.
stream_next(c) ==
    inbox' = [inbox EXCEPT ![c] =
                 IF @ = <<>> \/ Head(@) = EndOfStream THEN @ ELSE Tail(@)]

connect_stream(c, d) ==
    /\ pc[c] = "idle"
    /\ dir' = [dir EXCEPT ![c] = d]
    /\ pc' = [pc EXCEPT ![c] = IF d = "Incoming" THEN "in_recv" ELSE "out_send"]
    /\ UNCHANGED <<inbox, arrivals, hsMsg, other_id, result, sent, hsSent, closed,
                   installs, peers, peerId, delivered, peerErr, handed, slot>>

handshake_outgoing_send(c) ==
    /\ pc[c] = "out_send"
    /\ \E outcome \in SinkOutcomes(c) :
          /\ sink_send(c, Join(repo_id[c], supported_protocol_versions), outcome)
          /\ IF outcome = "sent"
             THEN /\ pc' = [pc EXCEPT ![c] = "out_recv"]
                  /\ UNCHANGED <<result, closed, installs, peers, peerId, hsSent>>
             ELSE handshake_failed(c, ErrSendError)
    /\ UNCHANGED <<dir, inbox, arrivals, hsMsg, other_id, delivered, peerErr,
                   handed, slot>>

handshake_outgoing_recv(c) ==
    /\ pc[c] = "out_recv"
    /\ awaited(inbox[c]) # <<>>
    /\ stream_next(c)
    /\ hsMsg' = [hsMsg EXCEPT ![c] = awaited(inbox[c])[1]]
    /\ LET r == outgoing_match(awaited(inbox[c])[1]) IN
          /\ other_id' = [other_id EXCEPT ![c] = r.other_id]
          /\ sent' = sent
          /\ IF r.ok
             THEN handshake_complete(c, r.other_id)
             ELSE handshake_failed(c, r.err)
    /\ UNCHANGED <<dir, arrivals, delivered, peerErr, handed, slot>>

handshake_incoming_recv(c) ==
    /\ pc[c] = "in_recv"
    /\ awaited(inbox[c]) # <<>>
    /\ stream_next(c)
    /\ hsMsg' = [hsMsg EXCEPT ![c] = awaited(inbox[c])[1]]
    /\ LET r == incoming_match(awaited(inbox[c])[1]) IN
          /\ other_id' = [other_id EXCEPT ![c] = r.other_id]
          /\ IF r.ok
             THEN /\ pc' = [pc EXCEPT ![c] = "in_send"]
                  /\ UNCHANGED <<result, closed, installs, peers, peerId, hsSent>>
             ELSE handshake_failed(c, r.err)
    /\ UNCHANGED <<dir, arrivals, sent, delivered, peerErr, handed, slot>>

handshake_incoming_send(c) ==
    /\ pc[c] = "in_send"
    /\ \E outcome \in SinkOutcomes(c) :
          /\ sink_send(c, Peer(repo_id[c], V1), outcome)
          /\ IF outcome = "sent"
             THEN handshake_complete(c, other_id[c])
             ELSE handshake_failed(c, ErrSending)
    /\ UNCHANGED <<dir, inbox, arrivals, hsMsg, other_id, delivered, peerErr,
                   handed, slot>>

\* A caller installs an adapter directly, without a handshake.
new_network_adapter(c, id) ==
    /\ pc[c] = "idle"
    /\ pc' = [pc EXCEPT ![c] = "adapter"]
    /\ sent' = sent
    /\ new_remote_repo(id, c, "new_network_adapter")
    /\ UNCHANGED <<dir, inbox, arrivals, hsMsg, other_id, result, delivered,
                   peerErr, handed, slot>>

\* ------------------------------------------------- the established channel

\* The repo polls the wrapped stream of an active peer.
repo_poll_stream(c) ==
    /\ c \in peers
    /\ pc[c] = "done"
    /\ inbox[c] # <<>>
    /\ stream_next(c)
    /\ LET item == Head(inbox[c])
           out == IF item = EndOfStream THEN <<>> ELSE mapped_stream(item)
       IN  IF item = EndOfStream
           THEN /\ remove_peer(c, ErrEndOfStream)
                /\ UNCHANGED delivered
           ELSE IF out = <<>>
           THEN UNCHANGED <<peers, closed, peerErr, delivered>>
           ELSE IF out[1].ok
           THEN /\ delivered' = [delivered EXCEPT ![c] = Append(@, out[1].msg)]
                /\ UNCHANGED <<peers, closed, peerErr>>
           ELSE /\ remove_peer(c, out[1].err)
                /\ UNCHANGED delivered
    /\ UNCHANGED <<pc, dir, arrivals, hsMsg, other_id, result, sent, hsSent,
                   installs, peerId, handed, slot>>

\* The repo hands one RepoMessage to the wrapped sink (start_send).
repo_send(c, msg) ==
    /\ c \in peers
    /\ pc[c] = "done"
    /\ slot[c] = <<>>
    /\ Len(handed[c]) < MaxSend
    /\ handed' = [handed EXCEPT ![c] = Append(@, msg)]
    /\ slot' = [slot EXCEPT ![c] = sink_flat_map(msg)]
    /\ UNCHANGED <<pc, dir, inbox, arrivals, hsMsg, other_id, result, sent, hsSent,
                   closed, installs, peers, peerId, delivered, peerErr>>

\* The wrapped sink writes its pending message to the transport; a transport
\* error is mapped (sink_map_err) and ends the peer.
sink_flush(c) ==
    /\ c \in peers
    /\ pc[c] = "done"
    /\ slot[c] # <<>>
    /\ slot' = [slot EXCEPT ![c] = Tail(@)]
    /\ \E ok \in BOOLEAN :
          IF ok
          THEN /\ sent' = [sent EXCEPT ![c] = Append(@, Head(slot[c]))]
               /\ UNCHANGED <<peers, closed, peerErr>>
          ELSE /\ remove_peer(c, ErrSendingRepo)
               /\ UNCHANGED sent
    /\ UNCHANGED <<pc, dir, inbox, arrivals, hsMsg, other_id, result, hsSent,
                   installs, peerId, delivered, handed>>

\* ---------------------------------------------------------- environment

\* The two ends of one transport connection, and the end opposite to c.
Ends == {TheChan, TheChan + 1}
OtherEnd(c) == IF c = TheChan THEN TheChan + 1 ELSE TheChan

\* The messages the connection has carried to end c, and whether the
\* stream of end c has been ended.
Carried(c) == SelectSeq(arrivals[c], LAMBDA item : item # EndOfStream)
Ended(c) == inbox[c] # <<>> /\ inbox[c][Len(inbox[c])] = EndOfStream

\* A reliable FIFO connection: the next message written at end c reaches
\* the stream of the other end.
transport_carry(c) ==
    LET o == OtherEnd(c) IN
    /\ link = "up"
    /\ Len(Carried(o)) < Len(sent[c])
    /\ ~closed[o]
    /\ ~Ended(o)
    /\ Len(inbox[o]) < MaxInbox
    /\ inbox' = [inbox EXCEPT ![o] = Append(@, sent[c][Len(Carried(o)) + 1])]
    /\ arrivals' = [arrivals EXCEPT ![o] = Append(@, sent[c][Len(Carried(o)) + 1])]
    /\ UNCHANGED <<pc, dir, hsMsg, other_id, result, sent, hsSent, closed,
                   installs, peers, peerId, delivered, peerErr, handed, slot,
                   repo_id, link>>

\* End c dropped its stream and sink: once what it wrote has been carried,
\* the stream of the other end ends.
transport_close(c) ==
    LET o == OtherEnd(c) IN
    /\ link = "up"
    /\ closed[c]
    /\ ~closed[o]
    /\ Len(Carried(o)) = Len(sent[c])
    /\ ~Ended(o)
    /\ Len(inbox[o]) < MaxInbox
    /\ inbox' = [inbox EXCEPT ![o] = Append(@, EndOfStream)]
    /\ arrivals' = [arrivals EXCEPT ![o] = Append(@, EndOfStream)]
    /\ UNCHANGED <<pc, dir, hsMsg, other_id, result, sent, hsSent, closed,
                   installs, peers, peerId, delivered, peerErr, handed, slot,
                   repo_id, link>>

\* The ways a stream ends when the transport finds the connection dead:
\* at once, or after one receive error.
LastItems == {<<EndOfStream>>, <<RecvErr, EndOfStream>>}

\* The transport finds the connection dead: both streams end.
transport_disconnect(last) ==
    LET ends(c) == c \in Ends /\ ~closed[c] /\ ~Ended(c) IN
    /\ link = "up"
    /\ \A c \in Ends : ends(c) => Len(inbox[c]) + Len(last) <= MaxInbox
    /\ link' = "down"
    /\ inbox' = [c \in Chans |-> IF ends(c) THEN inbox[c] \o last ELSE inbox[c]]
    /\ arrivals' = [c \in Chans |->
                       IF ends(c) THEN arrivals[c] \o last ELSE arrivals[c]]
    /\ UNCHANGED <<pc, dir, hsMsg, other_id, result, sent, hsSent, closed,
                   installs, peers, peerId, delivered, peerErr, handed, slot,
                   repo_id>>

\* The remote end or the transport puts one more item on the inbound stream.
transport_deliver(c, item, limit) ==
    /\ pc[c] # "idle"
    /\ ~closed[c]
    /\ Len(arrivals[c]) < limit
    /\ Len(inbox[c]) < MaxInbox
    /\ ~(inbox[c] # <<>> /\ inbox[c][Len(inbox[c])] = EndOfStream)
    /\ inbox' = [inbox EXCEPT ![c] = Append(@, item)]
    /\ arrivals' = [arrivals EXCEPT ![c] = Append(@, item)]
    /\ UNCHANGED <<pc, dir, hsMsg, other_id, result, sent, hsSent, closed,
                   installs, peers, peerId, delivered, peerErr, handed, slot>>

\* ------------------------------------------------ the test Network adapter

\* The adapter a repo installed for the other repo, and that repo.
AdapterOf(r) == CHOOSE a \in Adapters : a[1] = r

\* test_simple_sync: peers[owner][id] is the adapter owner installed for id.
peers_simple_sync(owner, id) == <<owner, id>>

\* test_requesting_document_*: peers[id] is the adapter installed for id.
peers_requesting_document(id) == CHOOSE a \in Adapters : a[2] = id

\* The adapter the router takes the message of a (from, to) pair from.
router_outgoing_peer(from, to) ==
    IF router_test = "test_simple_sync"
    THEN peers_simple_sync(from, to)
    ELSE peers_requesting_document(to)

\* The adapter the router hands a taken message to.
router_incoming_peer(msg) ==
    IF router_test = "test_simple_sync"
    THEN peers_simple_sync(msg.to, msg.from)
    ELSE peers_requesting_document(msg.from)

\* A faulty variant: a sink that is always ready.
poll_ready_always(q) == "Ready"

\* Sink::poll_ready, poll_flush, poll_close: Ready iff outgoing is empty.
poll_ready(q) == IF q = <<>> THEN "Ready" ELSE "Pending"
poll_flush(q) == IF q = <<>> THEN "Ready" ELSE "Pending"
poll_close(q) == IF q = <<>> THEN "Ready" ELSE "Pending"

SinkPolls == {"poll_ready", "poll_flush", "poll_close"}

sink_poll(which, q) ==
    CASE which = "poll_ready" -> poll_ready(q)
      [] which = "poll_flush" -> poll_flush(q)
      [] OTHER -> poll_close(q)

\* A faulty variant: the notification is sent before the message is queued.
start_send_notifies_first == <<"blocking_send", "push_back">>

\* Sink::start_send: push_back on outgoing, then blocking_send on the channel.
start_send_order == <<"push_back", "blocking_send">>

\* A faulty variant: try_send, which returns at once when the channel is full.
try_send(ch) == IF Len(ch) < NotifyCapacity THEN "sent" ELSE "full"

\* Sender::blocking_send: completes when the channel has room, else blocks
\* the calling thread.
blocking_send(ch) == IF Len(ch) < NotifyCapacity THEN "sent" ELSE "blocked"

\* A repo's loop runs on its own thread.  If the router task shares that
\* thread, the loop enters an adapter call only while the router is at its
\* await point, and the router runs only while the loop is outside a call.
RepoMayRun(r) == router_thread = r => router.at = "recv"
RouterMayRun == router_thread # NoId => repo_task[router_thread] = Idle

\* A waker woken while the task that registered it is still inside the
\* poll: the poll is marked, and its Pending does not put the task to sleep.
Woken(task) == task.step = 1
wake(a, polls) ==
    [repo_task EXCEPT ![a[1]] =
        IF @.op \in polls THEN [op |-> @.op, step |-> 1] ELSE @]

\* The messages the repos have handed to their adapters so far.
Handed ==
    LET RECURSIVE Sum(_)
        Sum(S) == IF S = {} THEN 0
                  ELSE LET a == CHOOSE x \in S : TRUE
                       IN  Len(accepted[a]) + Sum(S \ {a})
    IN  Sum(Adapters)

\* The first half of a sink poll: the waker is stored.
sink_poll_begin(r, which) ==
    LET a == AdapterOf(r) IN
    /\ repo_task[r] = Idle
    /\ RepoMayRun(r)
    /\ ~sink_parked[a]
    /\ ~sink_closed[a]
    /\ which = "poll_ready" => Handed < MaxOut
    /\ sink_waker' = [sink_waker EXCEPT ![a] = TRUE]
    /\ repo_task' = [repo_task EXCEPT ![r] = [op |-> which, step |-> 0]]
    /\ UNCHANGED <<buffer, stream_waker, outgoing, network_receiver, sink_parked,
                   stream_parked, sink_closed, router, router_thread,
                   router_test, accepted, taken, received>>

\* The second half: outgoing is looked at.  After Ready from poll_ready the
\* loop calls start_send; after Pending the task waits for its waker, unless
\* the waker was woken while the poll ran: then the task is polled again.
sink_poll_check(r) ==
    LET a == AdapterOf(r)
        which == repo_task[r].op
        res == sink_poll(which, outgoing[a])
    IN
    /\ which \in SinkPolls
    /\ IF res = "Ready"
       THEN /\ repo_task' = [repo_task EXCEPT ![r] =
                    IF which = "poll_ready"
                    THEN [op |-> "start_send", step |-> 1] ELSE Idle]
            /\ sink_closed' = [sink_closed EXCEPT ![a] = @ \/ which = "poll_close"]
            /\ UNCHANGED sink_parked
       ELSE /\ repo_task' = [repo_task EXCEPT ![r] = Idle]
            /\ sink_parked' = [sink_parked EXCEPT ![a] = ~Woken(repo_task[r])]
            /\ UNCHANGED sink_closed
    /\ UNCHANGED <<buffer, stream_waker, outgoing, sink_waker, network_receiver,
                   stream_parked, router, router_thread, router_test, accepted,
                   taken, received>>

\* One statement of start_send.  The message the repo sends through the
\* adapter it installed for a peer is a Sync from itself to that peer.
start_send(r) ==
    LET a == AdapterOf(r)
        step == repo_task[r].step
        item == NetworkSync(a[1], a[2], Len(accepted[a]) + 1)
        after == IF step < Len(start_send_order)
                 THEN [op |-> "start_send", step |-> step + 1] ELSE Idle
    IN
    /\ repo_task[r].op = "start_send"
    /\ IF start_send_order[step] = "push_back"
       THEN /\ outgoing' = [outgoing EXCEPT ![a] = Append(@, item)]
            /\ accepted' = [accepted EXCEPT ![a] = Append(@, item)]
            /\ UNCHANGED network_receiver
       ELSE /\ blocking_send(network_receiver) # "blocked"
            /\ network_receiver' =
                  IF blocking_send(network_receiver) = "sent"
                  THEN Append(network_receiver, <<item.from, item.to>>)
                  ELSE network_receiver
            /\ UNCHANGED <<outgoing, accepted>>
    /\ repo_task' = [repo_task EXCEPT ![r] = after]
    /\ UNCHANGED <<buffer, stream_waker, sink_waker, sink_parked, stream_parked,
                   sink_closed, router, router_thread, router_test, taken,
                   received>>

\* Stream::poll_next, first half: the waker is stored.
poll_next_begin(r) ==
    LET a == AdapterOf(r) IN
    /\ repo_task[r] = Idle
    /\ RepoMayRun(r)
    /\ ~stream_parked[a]
    /\ stream_waker' = [stream_waker EXCEPT ![a] = TRUE]
    /\ repo_task' = [repo_task EXCEPT ![r] = [op |-> "poll_next", step |-> 0]]
    /\ UNCHANGED <<buffer, outgoing, sink_waker, network_receiver, sink_parked,
                   stream_parked, sink_closed, router, router_thread,
                   router_test, accepted, taken, received>>

\* Stream::poll_next, second half: pop_front on buffer.
poll_next_check(r) ==
    LET a == AdapterOf(r) IN
    /\ repo_task[r].op = "poll_next"
    /\ IF buffer[a] # <<>>
       THEN /\ buffer' = [buffer EXCEPT ![a] = Tail(@)]
            /\ received' = [received EXCEPT ![a] = Append(@, Head(buffer[a]))]
            /\ UNCHANGED stream_parked
       ELSE /\ stream_parked' = [stream_parked EXCEPT ![a] = ~Woken(repo_task[r])]
            /\ UNCHANGED <<buffer, received>>
    /\ repo_task' = [repo_task EXCEPT ![r] = Idle]
    /\ UNCHANGED <<stream_waker, outgoing, sink_waker, network_receiver,
                   sink_parked, sink_closed, router, router_thread, router_test,
                   accepted, taken>>

\* The router: network_receiver.recv() yields a (from, to) pair.
router_recv ==
    /\ router.at = "recv"
    /\ RouterMayRun
    /\ network_receiver # <<>>
    /\ network_receiver' = Tail(network_receiver)
    /\ router' = [at |-> "take_outgoing", from |-> Head(network_receiver)[1],
                  to |-> Head(network_receiver)[2], msg |-> NoMessage]
    /\ UNCHANGED <<buffer, stream_waker, outgoing, sink_waker, repo_task,
                   sink_parked, stream_parked, sink_closed, router_thread,
                   router_test, accepted, taken, received>>

\* Network::take_outgoing, first statement: pop_front().unwrap().
take_outgoing_pop ==
    LET a == router_outgoing_peer(router.from, router.to) IN
    /\ router.at = "take_outgoing"
    /\ RouterMayRun
    /\ IF outgoing[a] = <<>>
       THEN /\ router' = [router EXCEPT !.at = "panicked"]
            /\ UNCHANGED <<outgoing, taken>>
       ELSE /\ router' = [router EXCEPT !.at = "wake_sink", !.msg = Head(outgoing[a])]
            /\ outgoing' = [outgoing EXCEPT ![a] = Tail(@)]
            /\ taken' = [taken EXCEPT ![a] = Append(@, Head(outgoing[a]))]
    /\ UNCHANGED <<buffer, stream_waker, sink_waker, network_receiver, repo_task,
                   sink_parked, stream_parked, sink_closed, router_thread,
                   router_test, accepted, received>>

\* Network::take_outgoing, second statement: the sink's waker is taken and woken.
take_outgoing_wake ==
    LET a == router_outgoing_peer(router.from, router.to) IN
    /\ router.at = "wake_sink"
    /\ RouterMayRun
    /\ sink_waker' = [sink_waker EXCEPT ![a] = FALSE]
    /\ sink_parked' = [sink_parked EXCEPT ![a] = @ /\ ~sink_waker[a]]
    /\ repo_task' = IF sink_waker[a] THEN wake(a, SinkPolls) ELSE repo_task
    /\ router' = [router EXCEPT !.at = "receive_incoming"]
    /\ UNCHANGED <<buffer, stream_waker, outgoing, network_receiver,
                   stream_parked, sink_closed, router_thread, router_test,
                   accepted, taken, received>>

\* A faulty variant: the waker is woken before the event is in the buffer.
receive_incoming_wakes_first == <<"wake", "push_back">>

\* Network::receive_incoming: push_back on buffer, then take and wake the
\* stream's waker.
receive_incoming_order == <<"push_back", "wake">>

\* One statement of receive_incoming on adapter a.
receive_incoming_statement(what, a) ==
    IF what = "push_back"
    THEN /\ buffer' = [buffer EXCEPT ![a] = Append(@, router.msg)]
         /\ UNCHANGED <<stream_waker, stream_parked, repo_task>>
    ELSE /\ stream_waker' = [stream_waker EXCEPT ![a] = FALSE]
         /\ stream_parked' = [stream_parked EXCEPT ![a] = @ /\ ~stream_waker[a]]
         /\ repo_task' = IF stream_waker[a] THEN wake(a, {"poll_next"})
                          ELSE repo_task
         /\ UNCHANGED buffer

\* Network::receive_incoming, first statement: push_back on buffer.
receive_incoming_push ==
    /\ router.at = "receive_incoming"
    /\ RouterMayRun
    /\ receive_incoming_statement(receive_incoming_order[1],
                                  router_incoming_peer(router.msg))
    /\ router' = [router EXCEPT !.at = "wake_stream"]
    /\ UNCHANGED <<outgoing, sink_waker, network_receiver, sink_parked,
                   sink_closed, router_thread, router_test, accepted, taken,
                   received>>

\* Network::receive_incoming, second statement: the stream's waker is taken
\* and woken; the router goes back to recv().
receive_incoming_wake ==
    /\ router.at = "wake_stream"
    /\ RouterMayRun
    /\ receive_incoming_statement(receive_incoming_order[2],
                                  router_incoming_peer(router.msg))
    /\ router' = AtRecv
    /\ UNCHANGED <<outgoing, sink_waker, network_receiver, sink_parked,
                   sink_closed, router_thread, router_test, accepted, taken,
                   received>>

\* --------------------------------------------------------- the sync engine

\* A Sync message as the engine sees it: the document, the changes of it
\* the sender holds (0 for a request), and whether it reports absence.
SyncMsg(d, have, absent) == [document |-> d, have |-> have, absent |-> absent]

\* A faulty variant: the adapter a repo holds for itself is a peer like any other.
SyncPeers_with_self(r) == adapters[r]

\* The peers a repo syncs with: its adapter for itself is a no-op.
SyncPeers(r) == adapters[r] \ {r}

\* A faulty variant: absence is settled as soon as no candidate is left to
\* hear from, also when there is no candidate at all.
every_candidate_absent_or_none(candidates, absent) == candidates \subseteq absent

\* NotFound: there are candidates and every one has reported absence.
every_candidate_absent(candidates, absent) ==
    candidates # {} /\ candidates \subseteq absent

\* A faulty variant: nothing is generated for a session that is born.
generate_nothing(r, d) == <<>>

\* generate for a session that is born: the document if the repo holds it,
\* a request if it has one outstanding, else nothing.
generate(r, d) ==
    IF registry[r][d] > 0 \/ requests[r][d] = "pending"
    THEN <<SyncMsg(d, registry[r][d], FALSE)>>
    ELSE <<>>

\* The messages for a new peer, over all documents.
new_session(r) ==
    LET RECURSIVE Over(_)
        Over(S) == IF S = {} THEN <<>>
                   ELSE LET d == CHOOSE x \in S : TRUE
                        IN  generate(r, d) \o Over(S \ {d})
    IN  Over(DocumentId)

\* The outboxes after repo r has emitted msgs to each of the peers in to.
emit(r, to, msgs) ==
    [l \in Links |-> IF l[1] = r /\ l[2] \in to THEN wire[l] \o msgs ELSE wire[l]]

\* A faulty variant: the receiver answers nothing.
reply_nothing(local, msg) == <<>>

\* What the receiver of msg, holding `local` changes of the document, sends
\* back: its changes if it holds more, a report of absence to a request for
\* a document it does not hold, else nothing.
reply(local, msg) ==
    IF msg.have < local
    THEN <<SyncMsg(msg.document, local, FALSE)>>
    ELSE IF msg.have = 0 /\ local = 0 /\ ~msg.absent
    THEN <<SyncMsg(msg.document, 0, TRUE)>>
    ELSE <<>>

\* RepoHandle::new_network_adapter(p, network) on repo r.
repo_new_network_adapter(r, p) ==
    /\ run_state[r] = "running"
    /\ p \notin adapters[r]
    /\ adapters' = [adapters EXCEPT ![r] = @ \cup {p}]
    /\ wire' = IF p = r THEN wire ELSE emit(r, {p}, new_session(r))
    /\ UNCHANGED <<run_state, registry, requests, found_state, absent_from>>

\* RepoHandle::request_document(d) on repo r, for a document r did not create.
request_document(r, d) ==
    /\ run_state[r] = "running"
    /\ d # r
    /\ requests[r][d] = "none"
    /\ IF registry[r][d] > 0
       THEN /\ requests' = [requests EXCEPT ![r][d] = "Found"]
            /\ found_state' = [found_state EXCEPT ![r][d] = registry[r][d]]
            /\ UNCHANGED wire
       ELSE IF every_candidate_absent(SyncPeers(r), absent_from[r][d])
       THEN /\ requests' = [requests EXCEPT ![r][d] = "NotFound"]
            /\ UNCHANGED <<found_state, wire>>
       ELSE /\ requests' = [requests EXCEPT ![r][d] = "pending"]
            /\ wire' = emit(r, SyncPeers(r), <<SyncMsg(d, 0, FALSE)>>)
            /\ UNCHANGED found_state
    /\ UNCHANGED <<run_state, registry, adapters, absent_from>>

\* The changes made so far after the documents were created.
Edits ==
    LET RECURSIVE Sum(_)
        Sum(S) == IF S = {} THEN 0
                  ELSE LET r == CHOOSE x \in S : TRUE
                       IN  (registry[r][r] - 1) + Sum(S \ {r})
    IN  Sum(MeshRepos)

\* A faulty variant: a local change is not advertised.
advertise_nothing(d, have) == <<>>

\* generate after a local change: the document's changes, for each peer.
advertise(d, have) == <<SyncMsg(d, have, FALSE)>>

\* DocHandle::with_doc_mut on the repo's own document: one more change,
\* advertised to every connected peer.
with_doc_mut(r) ==
    /\ run_state[r] = "running"
    /\ Edits < MaxEdits
    /\ registry' = [registry EXCEPT ![r][r] = @ + 1]
    /\ wire' = emit(r, SyncPeers(r), advertise(r, registry[r][r] + 1))
    /\ UNCHANGED <<run_state, adapters, requests, found_state, absent_from>>

\* The loop of repo `to` takes the next Sync from `from` off its adapter.
receive_sync(from, to) ==
    LET msg == Head(wire[<<from, to>>])
        d == msg.document
        local == registry[to][d]
        grown == msg.have > local
        absent == IF msg.absent /\ local = 0
                  THEN absent_from[to][d] \cup {from} ELSE absent_from[to][d]
        rest == [wire EXCEPT ![<<from, to>>] = Tail(@)]
        replied == [rest EXCEPT ![<<to, from>>] = @ \o reply(local, msg)]
    IN
    /\ wire[<<from, to>>] # <<>>
    /\ run_state[to] # "stopped"
    /\ from \in adapters[to]
    /\ registry' = [registry EXCEPT ![to][d] = IF grown THEN msg.have ELSE @]
    /\ absent_from' = [absent_from EXCEPT ![to][d] = absent]
    /\ wire' = [l \in Links |->
                  IF grown /\ l[1] = to /\ l[2] \in SyncPeers(to) \ {from}
                  THEN replied[l] \o <<SyncMsg(d, msg.have, FALSE)>>
                  ELSE replied[l]]
    /\ IF requests[to][d] = "pending" /\ grown
       THEN /\ requests' = [requests EXCEPT ![to][d] = "Found"]
            /\ found_state' = [found_state EXCEPT ![to][d] = msg.have]
       ELSE IF /\ requests[to][d] = "pending"
               /\ every_candidate_absent(SyncPeers(to), absent)
       THEN /\ requests' = [requests EXCEPT ![to][d] = "NotFound"]
            /\ UNCHANGED found_state
       ELSE UNCHANGED <<requests, found_state>>
    /\ UNCHANGED <<run_state, adapters>>

\* RepoHandle::stop(): the Stop command is put on the loop's command channel.
stop(r) ==
    /\ run_state[r] = "running"
    /\ run_state' = [run_state EXCEPT ![r] = "stopping"]
    /\ UNCHANGED <<registry, adapters, wire, requests, found_state, absent_from>>

\* A faulty variant: outstanding requests are left as they are.
cancel_nothing(request) == request

\* Stop resolves an outstanding request with Cancelled.
cancel(request) == IF request = "pending" THEN "Cancelled" ELSE request

\* The loop takes the Stop command: peer channels are closed, outstanding
\* requests resolve Cancelled, the loop ends and stop() returns Ok.
stop_complete(r) ==
    /\ run_state[r] = "stopping"
    /\ run_state' = [run_state EXCEPT ![r] = "stopped"]
    /\ adapters' = [adapters EXCEPT ![r] = {}]
    /\ requests' = [requests EXCEPT ![r] =
                       [d \in DocumentId |-> cancel(requests[r][d])]]
    /\ UNCHANGED <<registry, wire, found_state, absent_from>>

\* ------------------------------------------------------- specifications

\* Spec: handshakes and installations on every channel.  A handshake calls
\* stream.next() once, so the transport puts one item, any StreamItem, on
\* the inbound stream of a handshake that waits for it.
Next ==
    \/ \E c \in Chans, d \in ConnDirection :
          connect_stream(c, d) /\ UNCHANGED <<repo_id, link, netVars, syncVars>>
    \/ \E c \in Chans : handshake_outgoing_send(c) /\ UNCHANGED <<repo_id, link, netVars, syncVars>>
    \/ \E c \in Chans : handshake_outgoing_recv(c) /\ UNCHANGED <<repo_id, link, netVars, syncVars>>
    \/ \E c \in Chans : handshake_incoming_recv(c) /\ UNCHANGED <<repo_id, link, netVars, syncVars>>
    \/ \E c \in Chans : handshake_incoming_send(c) /\ UNCHANGED <<repo_id, link, netVars, syncVars>>
    \/ \E c \in Chans, id \in RepoId :
          new_network_adapter(c, id) /\ UNCHANGED <<repo_id, link, netVars, syncVars>>
    \/ \E c \in Chans, item \in StreamItem :
          /\ pc[c] \in {"in_recv", "out_recv"}
          /\ transport_deliver(c, item, 1)
          /\ UNCHANGED <<repo_id, link, netVars, syncVars>>

Spec == Init /\ [][Next]_vars

\* SpecChannel: the whole life of one channel, handshake and traffic.  The
\* code after the handshake looks only at the variant of an inbound item,
\* so one Join and one Peer stand for all of them there.
FirstItems ==
    {Join("r1", {V1}), Peer("r1", V1), Repo([kind |-> "Sync", payload |-> 1]),
     RecvErr, EndOfStream}
LaterItems ==
    {Repo(m) : m \in [kind : {"Sync"}, payload : Payloads]}
    \cup {Join("r1", {V1}), Peer("r1", V1), RecvErr, EndOfStream}

NextChannel ==
    \/ \E d \in ConnDirection : connect_stream(TheChan, d) /\ UNCHANGED <<repo_id, link, netVars, syncVars>>
    \/ handshake_outgoing_send(TheChan) /\ UNCHANGED <<repo_id, link, netVars, syncVars>>
    \/ handshake_outgoing_recv(TheChan) /\ UNCHANGED <<repo_id, link, netVars, syncVars>>
    \/ handshake_incoming_recv(TheChan) /\ UNCHANGED <<repo_id, link, netVars, syncVars>>
    \/ handshake_incoming_send(TheChan) /\ UNCHANGED <<repo_id, link, netVars, syncVars>>
    \/ repo_poll_stream(TheChan) /\ UNCHANGED <<repo_id, link, netVars, syncVars>>
    \/ \E msg \in RepoMessage : repo_send(TheChan, msg) /\ UNCHANGED <<repo_id, link, netVars, syncVars>>
    \/ sink_flush(TheChan) /\ UNCHANGED <<repo_id, link, netVars, syncVars>>
    \/ \E item \in (IF arrivals[TheChan] = <<>> THEN FirstItems ELSE LaterItems) :
          transport_deliver(TheChan, item, MaxRecv) /\ UNCHANGED <<repo_id, link, netVars, syncVars>>

SpecChannel == Init /\ [][NextChannel]_vars

\* SpecPair: two repos, each handed one end of a reliable FIFO connection,
\* each calling connect_stream with a direction of its own.  The transport
\* may find the connection dead at any time.  The handshakes and the
\* connection keep running; nothing obliges a repo to call connect_stream.
InitPair ==
    /\ ConnInit
    /\ NetInit
    /\ SyncInit
    /\ router_thread = NoId
    /\ router_test = "test_simple_sync"
    /\ repo_id = [c \in Chans |-> IF c = TheChan THEN "r1" ELSE "r2"]
    /\ link = "up"

NextPair ==
    \/ \E c \in Ends, d \in ConnDirection : connect_stream(c, d) /\ UNCHANGED <<repo_id, link, netVars, syncVars>>
    \/ \E c \in Ends : handshake_outgoing_send(c) /\ UNCHANGED <<repo_id, link, netVars, syncVars>>
    \/ \E c \in Ends : handshake_outgoing_recv(c) /\ UNCHANGED <<repo_id, link, netVars, syncVars>>
    \/ \E c \in Ends : handshake_incoming_recv(c) /\ UNCHANGED <<repo_id, link, netVars, syncVars>>
    \/ \E c \in Ends : handshake_incoming_send(c) /\ UNCHANGED <<repo_id, link, netVars, syncVars>>
    \/ \E c \in Ends : transport_carry(c) /\ UNCHANGED <<netVars, syncVars>>
    \/ \E c \in Ends : transport_close(c) /\ UNCHANGED <<netVars, syncVars>>
    \/ \E last \in LastItems :
          transport_disconnect(last) /\ UNCHANGED <<netVars, syncVars>>

PairFairness ==
    \A c \in Ends :
        /\ WF_vars(handshake_outgoing_send(c) /\ UNCHANGED <<repo_id, link, netVars, syncVars>>)
        /\ WF_vars(handshake_outgoing_recv(c) /\ UNCHANGED <<repo_id, link, netVars, syncVars>>)
        /\ WF_vars(handshake_incoming_recv(c) /\ UNCHANGED <<repo_id, link, netVars, syncVars>>)
        /\ WF_vars(handshake_incoming_send(c) /\ UNCHANGED <<repo_id, link, netVars, syncVars>>)
        /\ WF_vars(transport_carry(c) /\ UNCHANGED <<netVars, syncVars>>)
        /\ WF_vars(transport_close(c) /\ UNCHANGED <<netVars, syncVars>>)

SpecPair == InitPair /\ [][NextPair]_vars /\ PairFairness

\* SpecNet: the two repos' loops driving their Network adapters and the
\* router task of the tests.  The tests run the router on a multi-thread
\* runtime; InitNet also admits a router that shares one repo's thread (the
\* two repos are alike, so one of them stands for either).
SharingRepo == CHOOSE r \in TestRepos : TRUE

InitNet ==
    /\ ConnInit
    /\ OneRepo
    /\ NetInit
    /\ SyncInit
    /\ \/ /\ router_test = "test_simple_sync"
          /\ router_thread \in {NoId, SharingRepo}
       \/ /\ router_test = "test_requesting_document"
          /\ router_thread = NoId

NextNet ==
    \/ \E r \in TestRepos, which \in SinkPolls :
          sink_poll_begin(r, which) /\ UNCHANGED <<connVars, syncVars>>
    \/ \E r \in TestRepos : sink_poll_check(r) /\ UNCHANGED <<connVars, syncVars>>
    \/ \E r \in TestRepos : start_send(r) /\ UNCHANGED <<connVars, syncVars>>
    \/ \E r \in TestRepos : poll_next_begin(r) /\ UNCHANGED <<connVars, syncVars>>
    \/ \E r \in TestRepos : poll_next_check(r) /\ UNCHANGED <<connVars, syncVars>>
    \/ router_recv /\ UNCHANGED <<connVars, syncVars>>
    \/ take_outgoing_pop /\ UNCHANGED <<connVars, syncVars>>
    \/ take_outgoing_wake /\ UNCHANGED <<connVars, syncVars>>
    \/ receive_incoming_push /\ UNCHANGED <<connVars, syncVars>>
    \/ receive_incoming_wake /\ UNCHANGED <<connVars, syncVars>>

SpecNet == InitNet /\ [][NextNet]_vars

\* SpecWake: the adapters as the tests run them, the router on a thread of
\* its own.  The router task keeps running, a call on an adapter that can
\* go on does, and a repo's loop polls its stream again and again as long
\* as the stream has not left it waiting for a wakeup.
InitWake == InitNet /\ router_thread = NoId

RouterStep ==
    \/ router_recv
    \/ take_outgoing_pop
    \/ take_outgoing_wake
    \/ receive_incoming_push
    \/ receive_incoming_wake

CallStep(r) == sink_poll_check(r) \/ start_send(r) \/ poll_next_check(r)

WakeFairness ==
    /\ WF_vars(RouterStep /\ UNCHANGED <<connVars, syncVars>>)
    /\ \A r \in TestRepos :
          /\ WF_vars(CallStep(r) /\ UNCHANGED <<connVars, syncVars>>)
          /\ SF_vars(poll_next_begin(r) /\ UNCHANGED <<connVars, syncVars>>)

SpecWake == InitWake /\ [][NextNet]_vars /\ WakeFairness

\* SpecSync: the two repos of the tests, each holding its own document,
\* while both run: adapters are installed and documents requested and
\* edited in any order; the router delivers per direction in order.
NextSync ==
    \/ \E r \in TestRepos, p \in TestRepos :
          repo_new_network_adapter(r, p) /\ UNCHANGED <<connVars, netVars>>
    \/ \E r \in TestRepos, d \in TestRepos \cup {Unknown} :
          request_document(r, d) /\ UNCHANGED <<connVars, netVars>>
    \/ \E r \in TestRepos : with_doc_mut(r) /\ UNCHANGED <<connVars, netVars>>
    \/ \E l \in Links : receive_sync(l[1], l[2]) /\ UNCHANGED <<connVars, netVars>>

\* The router task and the repos' loops keep running: while a message waits
\* on some adapter, a message is eventually moved and received.
SyncFairness ==
    WF_vars(\E l \in Links : receive_sync(l[1], l[2]) /\ UNCHANGED <<connVars, netVars>>)

SpecSync == Init /\ [][NextSync]_vars /\ SyncFairness

\* SpecMesh: test_simple_sync.  Every repo has installed an adapter for every
\* repo id, its own included, before the router starts; a repo's adapter for
\* a peer then holds what the session born with it generated.  One task
\* requests the documents the repos do not own, awaiting each request before
\* it issues the next; the model takes them in any order.  The repos and
\* their documents are alike: the requests for one document stand for all.
InitMesh ==
    /\ ConnInit
    /\ OneRepo
    /\ NetInit
    /\ router_thread = NoId
    /\ router_test = "test_simple_sync"
    /\ run_state = [r \in MeshRepos |-> "running"]
    /\ registry = [r \in MeshRepos |-> [d \in DocumentId |-> IF d = r THEN 1 ELSE 0]]
    /\ adapters = [r \in MeshRepos |-> MeshRepos]
    /\ requests = [r \in MeshRepos |-> [d \in DocumentId |-> "none"]]
    /\ wire = [l \in Links |->
                  IF l[2] \in SyncPeers(l[1]) THEN new_session(l[1]) ELSE <<>>]
    /\ found_state = [r \in MeshRepos |-> [d \in DocumentId |-> 0]]
    /\ absent_from = [r \in MeshRepos |-> [d \in DocumentId |-> {}]]

MeshDocument == CHOOSE d \in MeshRepos : TRUE

NextMesh ==
    \/ \E r \in MeshRepos, d \in {MeshDocument} :
          /\ \A x \in MeshRepos, y \in DocumentId : requests[x][y] # "pending"
          /\ request_document(r, d)
          /\ UNCHANGED <<connVars, netVars>>
    \/ \E l \in Links : receive_sync(l[1], l[2]) /\ UNCHANGED <<connVars, netVars>>

SpecMesh == InitMesh /\ [][NextMesh]_vars /\ SyncFairness

\* SpecStop: the same repos, each of which may also be stopped at any time.
\* A loop eventually takes the commands put on its channel.
NextStop ==
    \/ NextSync
    \/ \E r \in TestRepos : stop(r) /\ UNCHANGED <<connVars, netVars>>
    \/ \E r \in TestRepos : stop_complete(r) /\ UNCHANGED <<connVars, netVars>>

StopFairness ==
    \A r \in TestRepos : WF_vars(stop_complete(r) /\ UNCHANGED <<connVars, netVars>>)

SpecStop == Init /\ [][NextStop]_vars /\ StopFairness

\* ------------------------------------------------------------ properties

Max(S) == CHOOSE x \in S : \A y \in S : y <= x

\* The installations connect_stream made for channel c.
ConnectInstalls(c) ==
    {i \in 1..Len(installs) :
        installs[i].chan = c /\ installs[i].via = "connect_stream"}

\* The installations of any kind made under RepoId id.
InstallsOf(id) == {i \in 1..Len(installs) : installs[i].id = id}

HandshakeRunning(c) == pc[c] \in {"in_recv", "in_send", "out_send", "out_recv"}

\* C1: in an Incoming handshake, for every Join received as the first
\* message, the version in the Peer reply is the highest version that is both
\* in the Join's supported set and supported by the local repo.
C1_SelectedIsHighestMutual ==
    \A c \in Chans :
        (dir[c] = "Incoming" /\ hsMsg[c].type = "Join" /\ sent[c] # <<>>) =>
            LET mutual == hsMsg[c].supported \cap supported_protocol_versions IN
            /\ mutual # {}
            /\ sent[c][1] = Peer(Self, Max(mutual))

\* C2: when the Join an Incoming handshake received advertises no version
\* the local repo supports, the handshake fails, the channel is closed and
\* connect_stream installs no peer.  (The claim also names the failure
\* Incompatible; the code has no such error, and the statement here is
\* already violated without it.)
C2_NoMutualVersionFails ==
    \A c \in Chans :
        (/\ dir[c] = "Incoming"
         /\ hsMsg[c].type = "Join"
         /\ hsMsg[c].supported \cap supported_protocol_versions = {}
         /\ pc[c] # "in_send") =>
            /\ pc[c] = "failed"
            /\ result[c] \notin {"pending", "Ok"}
            /\ closed[c]
            /\ c \notin peers
            /\ ConnectInstalls(c) = {}

\* C3: an Outgoing handshake first sends exactly one Join{sender=self,
\* supported}, then reads exactly one message, and succeeds if and only if
\* that message is Peer{sender, selected} with selected in the supported set
\* it advertised.
C3_OutgoingSucceedsIffAdvertisedPeer ==
    \A c \in Chans :
        dir[c] = "Outgoing" =>
            /\ hsMsg[c] # NoItem => sent[c] = <<join_msg>>
            /\ result[c] = "Ok" => hsMsg[c] # NoItem
            /\ hsMsg[c] # NoItem =>
                  (result[c] = "Ok" <=>
                      /\ hsMsg[c].type = "Peer"
                      /\ hsMsg[c].selected \in join_msg.supported)

\* What a channel wrote while its handshake ran.
HandshakeSent(c) == SubSeq(sent[c], 1, hsSent[c])

C4_HandshakeSends ==
    \A c \in Chans :
        /\ (dir[c] = "Outgoing" /\ pc[c] \in {"out_send", "out_recv", "failed"}) =>
              /\ sent[c] \in {<<>>, <<join_msg>>}
              /\ pc[c] = "out_send" => sent[c] = <<>>
        /\ (dir[c] = "Incoming" /\ pc[c] \in {"in_recv", "in_send", "failed"}) =>
              /\ sent[c] \in {<<>>, <<peer_msg>>}
              /\ sent[c] # <<>> => hsMsg[c].type = "Join"
              /\ pc[c] \in {"in_recv", "in_send"} => sent[c] = <<>>
        /\ pc[c] = "done" =>
              /\ HandshakeSent(c) =
                    IF dir[c] = "Outgoing" THEN <<join_msg>> ELSE <<peer_msg>>
              /\ dir[c] = "Incoming" => hsMsg[c].type = "Join"
        /\ pc[c] = "failed" => closed[c]

C4_FailedSendsNothing ==
    \A c \in Chans :
        pc[c] = "failed" => (sent'[c] = sent[c] /\ closed'[c] /\ pc'[c] = "failed")

\* C4: until a handshake completes the Outgoing side sends nothing except
\* its single Join and the Incoming side nothing except a single Peer, sent
\* only after it received a Join; a side whose handshake fails sends nothing
\* afterwards and its channel is closed.
C4_OnlyJoinOrPeerUntilComplete ==
    [](C4_HandshakeSends) /\ [][C4_FailedSendsNothing]_vars

\* An Outgoing side that sent its Join, read a Join back and failed.
C4_Witness ==
    \E c \in Chans :
        /\ dir[c] = "Outgoing" /\ pc[c] = "failed" /\ closed[c]
        /\ sent[c] = <<join_msg>> /\ hsMsg[c].type = "Join"

\* C5: when the first message an Incoming handshake receives is not a Join,
\* the handshake fails with the unexpected-message error, whose text no
\* receive error, send error or end of stream carries; no Peer is sent and
\* the channel is closed.
C5_UnexpectedFirstMessage ==
    \A c \in Chans :
        dir[c] = "Incoming" =>
            /\ hsMsg[c].type \in {"Peer", "Repo"} =>
                  /\ pc[c] = "failed" /\ result[c] = ErrExpectingJoin
                  /\ sent[c] = <<>> /\ closed[c] /\ c \notin peers
            /\ (pc[c] = "failed" /\ hsMsg[c].type \notin {"Peer", "Repo"}) =>
                  /\ result[c] \in {ErrReciving, ErrEndOfStream, ErrSending}
                  /\ result[c] # ErrExpectingJoin

\* An Incoming side whose first message was a Repo(Sync).
C5_Witness ==
    \E c \in Chans :
        /\ dir[c] = "Incoming" /\ pc[c] = "failed"
        /\ hsMsg[c].type = "Repo" /\ hsMsg[c].msg.kind = "Sync"

\* C6: connect_stream installs the peer exactly once, only after its
\* handshake succeeded and under the RepoId learned in it; when the
\* handshake fails it returns the error and installs nothing.
C6_InstallOnceAfterHandshake ==
    \A c \in Chans :
        /\ Cardinality(ConnectInstalls(c)) <= 1
        /\ ConnectInstalls(c) # {} <=> result[c] = "Ok"
        /\ result[c] = "Ok" =>
              /\ pc[c] = "done"
              /\ hsMsg[c].type = (IF dir[c] = "Outgoing" THEN "Peer" ELSE "Join")
              /\ HandshakeSent(c) =
                    IF dir[c] = "Outgoing" THEN <<join_msg>> ELSE <<peer_msg>>
              /\ \A i \in ConnectInstalls(c) : installs[i].id = hsMsg[c].sender
              /\ peerId[c] = hsMsg[c].sender
        /\ pc[c] = "failed" =>
              /\ result[c] \notin {"pending", "Ok"}
              /\ c \notin peers
        /\ HandshakeRunning(c) => (result[c] = "pending" /\ c \notin peers)

\* An Outgoing connect_stream that installed its peer as r2.
C6_Witness ==
    \E c \in Chans :
        /\ dir[c] = "Outgoing" /\ result[c] = "Ok" /\ c \in peers
        /\ peerId[c] = "r2"

\* C7: the repo holds at most one active peer per remote RepoId: the channel
\* installed last for an id is the active one, every channel installed for
\* it earlier is closed and no longer a peer.
C7_OneActivePeerPerRemote ==
    /\ \A p, q \in peers : peerId[p] = peerId[q] => p = q
    /\ \A i, j \in 1..Len(installs) :
          (i < j /\ installs[i].id = installs[j].id) =>
              (installs[i].chan \notin peers /\ closed[installs[i].chan])
    /\ \A id \in RepoId :
          InstallsOf(id) # {} => installs[Max(InstallsOf(id))].chan \in peers

\* Two handshakes completed for the same remote; the earlier channel was
\* closed and replaced.
C7_Witness ==
    \E c, q \in Chans :
        /\ c # q /\ pc[c] = "done" /\ pc[q] = "done"
        /\ peerId[c] = peerId[q]
        /\ q \in peers /\ c \notin peers /\ closed[c]

IsPrefix(a, b) == Len(a) <= Len(b) /\ SubSeq(b, 1, Len(a)) = a

\* The longest prefix of seq made of Repo messages only.
RECURSIVE RepoPrefix(_)
RepoPrefix(seq) ==
    IF seq = <<>> \/ Head(seq).type # "Repo"
    THEN <<>>
    ELSE <<Head(seq)>> \o RepoPrefix(Tail(seq))

Payload(seq) == [i \in 1..Len(seq) |-> seq[i].msg]
Wrapped(seq) == [i \in 1..Len(seq) |-> Repo(seq[i])]
IsSync(msg) == msg.kind = "Sync"

\* What arrived on an established channel after the handshake's item, and
\* what was written to its transport after the handshake.
PostArrivals(c) == Tail(arrivals[c])
PostWire(c) == SubSeq(sent[c], hsSent[c] + 1, Len(sent[c]))
Polled(c) == Len(PostArrivals(c)) - Len(inbox[c])

\* C8: on an established channel only the payloads of Message::Repo reach
\* the repo, in arrival order; a Join or Peer that arrives after the
\* handshake ends the channel with the non-repo error, and nothing that
\* arrived after it is delivered.
C8_OnlyRepoPayloadsInOrder ==
    \A c \in Chans :
        pc[c] = "done" =>
            LET post == PostArrivals(c)
                pre == RepoPrefix(post)
            IN  /\ hsMsg[c] = Head(arrivals[c])
                /\ IsPrefix(delivered[c], Payload(pre))
                /\ (c \in peers /\ inbox[c] = <<>>) =>
                      (pre = post /\ delivered[c] = Payload(pre))
                /\ peerErr[c] = ErrNonRepo =>
                      /\ c \notin peers /\ closed[c]
                      /\ delivered[c] = Payload(pre)
                      /\ Len(pre) < Len(post)
                      /\ post[Len(pre) + 1].type \in {"Join", "Peer"}
                /\ (Polled(c) > Len(pre) /\ post[Len(pre) + 1].type \in {"Join", "Peer"})
                      => peerErr[c] = ErrNonRepo

\* A channel ended by a non-repo message after one delivery, with a Repo
\* message that arrived behind it left undelivered.
C8_Witness ==
    \E c \in Chans :
        /\ peerErr[c] = ErrNonRepo /\ Len(delivered[c]) >= 1
        /\ inbox[c] # <<>> /\ Head(inbox[c]).type = "Repo"

C9_WireIsSyncOnly ==
    \A c \in Chans :
        pc[c] = "done" =>
            /\ \A i \in 1..Len(PostWire(c)) :
                  /\ PostWire(c)[i].type = "Repo"
                  /\ PostWire(c)[i].msg.kind = "Sync"
            /\ Len(PostWire(c)) + Len(slot[c]) <= Len(SelectSeq(handed[c], IsSync))

C9_NonSyncIsDropped ==
    \A c \in Chans :
        (/\ Len(handed'[c]) = Len(handed[c]) + 1
         /\ ~IsSync(handed'[c][Len(handed'[c])])) =>
            /\ sent' = sent /\ slot'[c] = <<>>
            /\ peers' = peers /\ peerErr' = peerErr /\ closed' = closed

\* C9: every message written to the transport after the handshake is
\* Message::Repo wrapping a RepoMessage::Sync; handing a non-Sync
\* RepoMessage to the sink writes nothing and raises no error.
C9_OnlySyncOnEstablishedChannel ==
    [](C9_WireIsSyncOnly) /\ [][C9_NonSyncIsDropped]_vars

\* A non-Sync message handed between two Syncs; the transport saw the two.
C9_Witness ==
    \E c \in Chans :
        /\ Len(handed[c]) = 3
        /\ IsSync(handed[c][1]) /\ ~IsSync(handed[c][2]) /\ IsSync(handed[c][3])
        /\ PostWire(c) = <<Repo(handed[c][1]), Repo(handed[c][3])>>

\* C10 as stated: for every sequence of messages the repo hands to a peer's
\* sink, the transport observes that same sequence.
C10_TransportSeesAllHanded ==
    \A c \in Chans :
        (pc[c] = "done" /\ c \in peers /\ slot[c] = <<>>) =>
            PostWire(c) = Wrapped(handed[c])

\* C10, amended: the transport observes the Sync messages handed to the
\* sink, in the order handed, none missing and none twice; what it has
\* not yet written is still pending in the sink.
C10_TransportSeesSyncsInOrder ==
    \A c \in Chans :
        pc[c] = "done" =>
            LET syncs == Wrapped(SelectSeq(handed[c], IsSync)) IN
            /\ IsPrefix(PostWire(c), syncs)
            /\ c \in peers => PostWire(c) \o slot[c] = syncs

\* Two different Syncs handed after a non-Sync, both written, in order.
C10_Witness ==
    \E c \in Chans :
        /\ c \in peers /\ slot[c] = <<>> /\ Len(handed[c]) = 3
        /\ ~IsSync(handed[c][1]) /\ IsSync(handed[c][2]) /\ IsSync(handed[c][3])
        /\ handed[c][2] # handed[c][3]
        /\ PostWire(c) = <<Repo(handed[c][2]), Repo(handed[c][3])>>

\* --------------------------------------------------- the test Network sink

\* What an adapter's outgoing queue has held: taken first, then still queued.
C11_QueueInv ==
    \A a \in Adapters :
        /\ Len(outgoing[a]) <= 1
        /\ taken[a] \o outgoing[a] = accepted[a]

C11_PollStep ==
    \A r \in TestRepos :
        LET a == AdapterOf(r) IN
        /\ (/\ repo_task[r].op \in SinkPolls
            /\ repo_task'[r].op # repo_task[r].op
            /\ outgoing[a] # <<>>)
           => (/\ repo_task'[r] = Idle
               /\ sink_parked'[a] = ~Woken(repo_task[r])
               /\ sink_closed'[a] = sink_closed[a])
        /\ accepted'[a] # accepted[a] => outgoing[a] = <<>>
        /\ (sink_parked[a] /\ accepted'[a] # accepted[a]) => FALSE
        /\ (sink_parked[a] /\ ~sink_parked'[a]) => router.at = "wake_sink"

\* C11: an adapter's outgoing queue never holds more than one message; a
\* poll_ready, poll_flush or poll_close that finds it non-empty returns
\* Pending and the producer pushes nothing until take_outgoing has woken it;
\* the messages start_send pushed are exactly the ones taken, in order, each
\* once, followed by the ones still queued.
C11_BoundedQueueNothingLost == []C11_QueueInv /\ [][C11_PollStep]_vars

C11_Witness ==
    \E a \in Adapters :
        /\ Len(accepted[a]) = 2
        /\ Len(taken[a]) = 1
        /\ outgoing[a] # <<>>
        /\ sink_parked[a]

\* ------------------------------------------------------- requests and sync

Connected(a, b) == a \in adapters[b] /\ b \in adapters[a]

\* The future of b's request for a's document, once resolved.
C12_FoundIsOwnersState ==
    \A a \in TestRepos : \A b \in TestRepos \ {a} :
        /\ requests[b][a] \in {"none", "pending", "Found"}
        /\ requests[b][a] = "Found" =>
              /\ found_state[b][a] \in 1..registry[a][a]
              /\ registry[a][a] = 1 => found_state[b][a] = registry[a][a]

C12_PendingResolves ==
    \A a \in TestRepos : \A b \in TestRepos \ {a} :
        (requests[b][a] = "pending" /\ Connected(a, b))
            ~> (requests[b][a] = "Found")

\* C12: whenever b's request for the document a created is outstanding and
\* the adapters are installed in both directions, in whichever order that
\* came about, the request resolves Found while both repos run; the handle
\* then holds a state a's document had, a's state itself if a made
\* no change after creating it; it never resolves NotFound.
C12_RequestResolvesWithOwnersState ==
    []C12_FoundIsOwnersState /\ C12_PendingResolves

C12_Witness ==
    \E a \in TestRepos : \E b \in TestRepos \ {a} :
        /\ requests[b][a] = "Found"
        /\ found_state[b][a] = registry[a][a]
        /\ Connected(a, b)

\* What holds of the mesh at all times.
C13_MeshInv ==
    \A r \in MeshRepos :
        /\ r \in adapters[r]
        /\ wire[<<r, r>>] = <<>>
        /\ \A d \in DocumentId :
              /\ r \notin absent_from[r][d]
              /\ requests[r][d] \in {"none", "pending", "Found"}
              /\ requests[r][d] = "Found" =>
                    (d \in MeshRepos /\ found_state[r][d] = registry[d][d])

C13_MeshRequestsResolve ==
    \A r \in MeshRepos \ {MeshDocument} :
        (requests[r][MeshDocument] = "pending")
            ~> (requests[r][MeshDocument] = "Found")

\* C13: in the full mesh, where every repo also holds an adapter for itself,
\* every outstanding request for a document another repo created resolves
\* Found with the owner's content and none resolves otherwise; a repo's
\* adapter for itself carries no message and reports nothing.
C13_MeshRequestsResolveWithOwnersContent ==
    []C13_MeshInv /\ C13_MeshRequestsResolve

C13_Witness ==
    \A r \in MeshRepos \ {MeshDocument} :
        /\ requests[r][MeshDocument] = "Found"
        /\ found_state[r][MeshDocument] = registry[MeshDocument][MeshDocument]
        /\ r \in adapters[r]

\* The step that resolves a request NotFound.
C14_NotFoundStep ==
    \A r \in TestRepos : \A d \in DocumentId :
        (requests[r][d] # "NotFound" /\ requests'[r][d] = "NotFound")
            => /\ requests[r][d] \in {"none", "pending"}
               /\ SyncPeers(r) # {}
               /\ SyncPeers(r) \subseteq absent_from'[r][d]

\* Only connected peers are recorded as absent, and a resolved request stays.
C14_AbsentInv ==
    \A r \in TestRepos : \A d \in DocumentId :
        /\ absent_from[r][d] \subseteq SyncPeers(r)
        /\ requests[r][d] = "NotFound" => absent_from[r][d] # {}

C14_AbsenceResolves ==
    \A r \in TestRepos : \A p \in TestRepos \ {r} :
        (requests[r][Unknown] = "pending" /\ Connected(r, p))
            ~> (requests[r][Unknown] = "NotFound")

SameView(a, b) == registry[b][a] = registry[a][a]

\* C15: for repos a and b that come to be connected in both directions,
\* from some point on b's view of the document a created equals a's for
\* good (the changes a makes are finitely many, so they end at some point).
C15_ViewsConverge ==
    \A a \in TestRepos : \A b \in TestRepos \ {a} :
        <>Connected(a, b) => <>[]SameView(a, b)

C15_Witness ==
    \E a \in TestRepos : \E b \in TestRepos \ {a} :
        /\ Connected(a, b)
        /\ registry[a][a] > 1
        /\ SameView(a, b)
        /\ Edits = MaxEdits

\* ------------------------------------------------------------------- stop

\* A stopped repo has nothing outstanding.
C16_StoppedInv ==
    \A r \in TestRepos :
        run_state[r] = "stopped" =>
            /\ adapters[r] = {}
            /\ \A d \in DocumentId : requests[r][d] # "pending"

\* A stopped repo takes no further step: it sends nothing and receives
\* nothing.  stop() can be called on a running repo whatever else has happened.
C16_StoppedStep ==
    \A r \in TestRepos :
        /\ run_state[r] = "stopped" =>
              /\ run_state'[r] = "stopped"
              /\ registry'[r] = registry[r]
              /\ requests'[r] = requests[r]
              /\ adapters'[r] = adapters[r]
              /\ \A p \in MeshRepos :
                    /\ Len(wire'[<<r, p>>]) <= Len(wire[<<r, p>>])
                    /\ Len(wire'[<<p, r>>]) >= Len(wire[<<p, r>>])
        /\ run_state[r] = "running" =>
              ENABLED (stop(r) /\ UNCHANGED <<connVars, netVars>>)

C16_StopReturns ==
    \A r \in TestRepos :
        (run_state[r] = "stopping") ~> (run_state[r] = "stopped")

Waiting(c) == pc[c] \in {"out_recv", "in_recv"}

C17_WaitStep ==
    \A c \in Ends :
        Waiting(c) /\ pc'[c] # pc[c] =>
            /\ inbox[c] # <<>>
            /\ \E i \in 1..Len(arrivals[c]) : arrivals[c][i] = Head(inbox[c])
            /\ hsMsg'[c] = Head(inbox[c])
            /\ Head(inbox[c]).type \in {"Join", "Peer", "Repo", "RecvErr", "End"}

BothIncoming == \A c \in Ends : dir[c] = "Incoming"

C17_BothIncomingInv ==
    BothIncoming =>
        \A c \in Ends :
            /\ sent[c] = <<>>
            /\ pc[c] \in {"in_recv", "failed"}
            /\ pc[c] = "failed" =>
                  /\ link = "down"
                  /\ hsMsg[c] \in {RecvErr, EndOfStream}
                  /\ result[c] \in {ErrReciving, ErrEndOfStream}

C17_NoTimeoutOfItsOwn == []C17_BothIncomingInv /\ [][C17_WaitStep]_vars

\* Both ends Incoming, and both handshakes ended by the transport.
C17_Witness ==
    /\ BothIncoming
    /\ \A c \in Ends : pc[c] = "failed" /\ sent[c] = <<>>
    /\ link = "down"

\* ---------------------------------------------------------------- C18
\* C18: the blocking send inside start_send can deadlock.  When the repo
\* loop that called start_send shares its thread with the router task and
\* the notification channel is full, start_send stays at blocking_send for
\* ever: the call never returns, the router (the channel's only consumer)
\* never runs, and the channel stays full.  The channel never holds more
\* than its capacity.
AtBlockingSend(r) ==
    /\ repo_task[r].op = "start_send"
    /\ start_send_order[repo_task[r].step] = "blocking_send"

Deadlocked(r) ==
    /\ router_thread = r
    /\ AtBlockingSend(r)
    /\ Len(network_receiver) = NotifyCapacity

C18_DeadlockStep ==
    \A r \in TestRepos :
        Deadlocked(r) =>
            /\ repo_task'[r] = repo_task[r]
            /\ router' = router
            /\ network_receiver' = network_receiver
            /\ outgoing'[AdapterOf(r)] = outgoing[AdapterOf(r)]

C18_CapacityInv == Len(network_receiver) <= NotifyCapacity

C18_BlockingSendDeadlocks == []C18_CapacityInv /\ [][C18_DeadlockStep]_vars

\* The deadlock: the message is queued, its notification is not sent, the
\* router waits at recv with a notification it will never take.
C18_Witness ==
    \E r \in TestRepos :
        /\ Deadlocked(r)
        /\ router.at = "recv"
        /\ outgoing[AdapterOf(r)] # <<>>

\* ---------------------------------------------------------------- C19
\* C19: over a reliable FIFO connection, an Outgoing end and an Incoming
\* end both succeed: neither handshake fails, exactly two messages cross
\* (the Outgoing end's Join, then the Incoming end's Peer), the Outgoing
\* end returns the Incoming repo's id and the Incoming end returns the
\* Outgoing repo's id, and both handshakes terminate.  When both ends are
\* Outgoing, neither handshake succeeds and both fail.
Opposite(o) == dir[o] = "Outgoing" /\ dir[OtherEnd(o)] = "Incoming"
BothOutgoing == \A c \in Ends : dir[c] = "Outgoing"
BothDone == \A c \in Ends : pc[c] = "done"

C19_OppositeInv ==
    \A o \in Ends :
        LET i == OtherEnd(o)
            join == Join(repo_id[o], supported_protocol_versions)
            peer == Peer(repo_id[i], V1)
        IN  Opposite(o) /\ link = "up" =>
              /\ pc[o] # "failed" /\ pc[i] # "failed"
              /\ sent[o] \in {<<>>, <<join>>}
              /\ sent[i] \in {<<>>, <<peer>>}
              /\ sent[i] # <<>> => Carried(i) = <<join>>
              /\ pc[o] = "done" =>
                    /\ Carried(o) = <<peer>>
                    /\ result[o] = "Ok" /\ other_id[o] = repo_id[i]
                    /\ peerId[o] = repo_id[i]
              /\ pc[i] = "done" =>
                    /\ sent[i] = <<peer>>
                    /\ result[i] = "Ok" /\ other_id[i] = repo_id[o]
                    /\ peerId[i] = repo_id[o]
              /\ BothDone => <<sent[o], sent[i]>> = <<<<join>>, <<peer>>>>

C19_BothOutgoingInv ==
    BothOutgoing =>
        \A c \in Ends :
            /\ pc[c] # "done"
            /\ pc[c] = "failed" /\ link = "up" => result[c] = ErrExpectingPeer

C19_OppositeTerminate ==
    \A o \in Ends : Opposite(o) ~> (BothDone \/ link = "down")

C19_BothOutgoingFail ==
    BothOutgoing ~> (\A c \in Ends : pc[c] = "failed")

C19_OppositeDirectionsSucceed ==
    /\ []C19_OppositeInv
    /\ []C19_BothOutgoingInv
    /\ C19_OppositeTerminate
    /\ C19_BothOutgoingFail

\* Both handshakes returned Ok over the live connection, ids crossed.
C19_Witness ==
    \E o \in Ends :
        /\ Opposite(o) /\ link = "up" /\ BothDone
        /\ other_id[o] = repo_id[OtherEnd(o)]
        /\ other_id[OtherEnd(o)] = repo_id[o]

\* ---------------------------------------------------------------- C20
\* C20: the router never takes from an empty outgoing queue.  Every
\* notification, waiting in the channel or just received by the router, is
\* matched by a message still queued in the adapter the router selects for
\* it; when the router is about to call take_outgoing the selected queue is
\* not empty and its head is a message of that (from, to); the router pops
\* exactly that one message; so the unwrap in take_outgoing never fails.
Selected == router_outgoing_peer(router.from, router.to)

RECURSIVE NotificationsFor(_, _)
NotificationsFor(a, ch) ==
    IF ch = <<>> THEN 0
    ELSE (IF router_outgoing_peer(Head(ch)[1], Head(ch)[2]) = a THEN 1 ELSE 0)
         + NotificationsFor(a, Tail(ch))

Unmatched(a) ==
    NotificationsFor(a, network_receiver)
    + (IF router.at = "take_outgoing" /\ Selected = a THEN 1 ELSE 0)

C20_MatchedInv ==
    /\ router.at # "panicked"
    /\ \A a \in Adapters : Unmatched(a) <= Len(outgoing[a])
    /\ router.at = "take_outgoing" =>
          /\ outgoing[Selected] # <<>>
          /\ Head(outgoing[Selected]).from = router.from
          /\ Head(outgoing[Selected]).to = router.to

C20_PopStep ==
    router.at = "take_outgoing" /\ router' # router =>
        /\ router'.at = "wake_sink"
        /\ router'.msg = Head(outgoing[Selected])
        /\ outgoing' = [outgoing EXCEPT ![Selected] = Tail(@)]

C20_RouterNeverTakesFromEmpty == []C20_MatchedInv /\ [][C20_PopStep]_vars

\* The router has taken a message for a notification while another message
\* of the same test is still queued or notified.
C20_Witness ==
    /\ router.at = "wake_sink"
    /\ router.msg # NoMessage
    /\ taken[Selected] # <<>>
    /\ \E a \in Adapters : outgoing[a] # <<>>

\* ---------------------------------------------------------------- C21
\* C21: the test adapter loses no wakeup.  A consumer the stream left
\* waiting has its waker registered, and if the buffer holds an event then
\* the wake for it is still to come; every event put in the buffer is
\* eventually returned by poll_next, in order, when the consumer polls again
\* whenever it is woken.  A producer a sink poll left waiting has its waker
\* registered while the queue holds a message or the wake is still to come,
\* and it is woken after take_outgoing has emptied the queue.
WakeToCome(a) ==
    /\ router.at \in {"receive_incoming", "wake_stream"}
    /\ router_incoming_peer(router.msg) = a

SinkWakeToCome(a) == router.at = "wake_sink" /\ Selected = a

C21_ParkedInv ==
    \A a \in Adapters :
        /\ stream_parked[a] => stream_waker[a]
        /\ stream_parked[a] /\ buffer[a] # <<>> => WakeToCome(a)
        /\ sink_parked[a] => sink_waker[a]
        /\ sink_parked[a] => outgoing[a] # <<>> \/ SinkWakeToCome(a)

C21_ReturnStep ==
    \A a \in Adapters :
        /\ buffer'[a] # buffer[a] =>
              \/ /\ buffer[a] # <<>>
                 /\ received'[a] = Append(received[a], Head(buffer[a]))
                 /\ buffer'[a] = Tail(buffer[a])
              \/ /\ received'[a] = received[a]
                 /\ buffer'[a] = Append(buffer[a], router.msg)
        /\ received'[a] # received[a] => buffer'[a] # buffer[a]
        /\ sink_parked[a] /\ ~sink_parked'[a] => SinkWakeToCome(a)
        /\ stream_parked[a] /\ ~stream_parked'[a] => WakeToCome(a)

\* Events leave the buffer only through poll_next (C21_ReturnStep), so the
\* buffer being empty again and again says that every event put in it is
\* returned; likewise a producer that is awake again and again is one that
\* is woken whenever it was left waiting.
C21_EventsReturned == \A a \in Adapters : []<>(buffer[a] = <<>>)

C21_ProducerWoken == \A a \in Adapters : []<>(~sink_parked[a])

C21_NoLostWakeup ==
    /\ []C21_ParkedInv
    /\ [][C21_ReturnStep]_vars
    /\ C21_EventsReturned
    /\ C21_ProducerWoken

\* An event reached a consumer that had been left waiting by poll_next, and
\* a producer that had been left waiting by a sink poll was woken.
C21_Witness ==
    \E a \in Adapters :
        /\ received[a] # <<>>
        /\ stream_parked[a]
        /\ buffer[a] # <<>>

====
